---- MODULE Spec2Model ----
(***************************************************************************)
(* GDACSAPIReader (src/gdacs/api.py): five read operations of the GDACS    *)
(* web API, each wrapped in cachetools' @cached(TTLCache(500, 300)).       *)
(*                                                                         *)
(* Python values.  None is the empty tuple and every other value v is the  *)
(* one-element tuple <<v>>, so that an optional argument is always a       *)
(* tuple and None differs from every string, the empty string included.    *)
(* The strings the code takes apart, event_list and the components of a   *)
(* resource path, are sequences of lexemes ("TC", ",", "/", ...); Text     *)
(* spells them out.                                                        *)
(***************************************************************************)
EXTENDS Integers, Sequences, FiniteSets, TLC

VARIABLES
    now,      \* the cache timer (time.monotonic), in seconds
    cache,    \* one TTLCache per decorated method: op -> set of links
    last,     \* the call that ended last: arguments, outcome, requests sent
    hist,     \* per (op, arguments): when they were first used, and the
              \* requests their calls sent within one TTL of that first use
    ncalls    \* number of calls made so far

vars == <<now, cache, last, hist, ncalls>>

----------------------------------------------------------------------------
\* Bounds of the model

\* features in one upstream body
MaxFeatures == 2
\* lexemes in one event_list text
MaxListLen == 3
\* calls in one behaviour of Spec
MaxCalls == 2
\* timer advances in one behaviour of Spec
MaxTicks == 2
\* seconds per timer advance
TickLen == 150

----------------------------------------------------------------------------
\* Module constants, api.py:8-17

None == <<>>
Some(v) == <<v>>

CACHE_TTL == 300
EVENT_TYPES == {None, Some("TC"), Some("EQ"), Some("FL"), Some("VO"), Some("DR"), Some("WF")}
DATA_FORMATS == {None, Some("xml"), Some("geojson"), Some("shp")}
ALERT_LEVELS == {None, Some("green"), Some("orange"), Some("red")}
BASE_URL == "https://www.gdacs.org/datareport/resources"
API_BASE_URL == "https://www.gdacs.org/gdacsapi"
LATEST_EVENTS_URL == API_BASE_URL \o "/api/events/geteventlist/latest"
LATEST_EVENTS_URL_4APP == API_BASE_URL \o "/api/events/geteventlist/EVENTS4APP"
EVENTS_BY_AREA_URL == API_BASE_URL \o "/api/events/geteventlist/eventsbyarea"
EVENTS_DATA_URL == API_BASE_URL \o "/api/events/geteventdata"

DefaultPageSize == 100
DefaultPageNumber == 1

----------------------------------------------------------------------------
\* Python built-ins the methods use

\* bool(v) of an optional str: None and "" are falsy
Truthy(v) == v # None /\ v # Some("")

\* bool(v) of an optional text (a str held as lexemes)
TruthyText(v) == v # None /\ v # Some(<<>>)

\* the str spelled by a sequence of lexemes
RECURSIVE Text(_)
Text(s) == IF s = <<>> THEN "" ELSE Head(s) \o Text(Tail(s))

\* s.split(','): the pieces between the commas, empty pieces kept
RECURSIVE Split(_)
Split(s) ==
    IF \A i \in 1..Len(s) : s[i] # ","
    THEN <<s>>
    ELSE LET i == CHOOSE j \in 1..Len(s) :
                      s[j] = "," /\ \A k \in 1..(j - 1) : s[k] # ","
         IN  <<SubSeq(s, 1, i - 1)>> \o Split(SubSeq(s, i + 1, Len(s)))

\* et.strip(): leading and trailing blanks removed
RECURSIVE LStrip(_)
LStrip(s) == IF s # <<>> /\ Head(s) = " " THEN LStrip(Tail(s)) ELSE s

RECURSIVE RStrip(_)
RStrip(s) ==
    IF s # <<>> /\ s[Len(s)] = " " THEN RStrip(SubSeq(s, 1, Len(s) - 1)) ELSE s

Strip(s) == RStrip(LStrip(s))

\* events[:limit]: None keeps all, k >= 0 the first k, k < 0 all but the last -k
Slice(events, limit) ==
    LET n == Len(events)
        stop == IF limit = None THEN n
                ELSE IF limit[1] >= 0 THEN (IF limit[1] < n THEN limit[1] ELSE n)
                ELSE (IF n + limit[1] > 0 THEN n + limit[1] ELSE 0)
    IN  SubSeq(events, 1, stop)

\* json.dumps / json.loads of a feature list: one row per feature and back
json_dumps(features) ==
    [i \in 1..Len(features) |->
        <<"properties", "eventid", features[i].properties.eventid,
          "eventtype", features[i].properties.eventtype>>]

json_loads(rows) ==
    [i \in 1..Len(rows) |->
        [properties |-> [eventid |-> rows[i][3], eventtype |-> rows[i][5]]]]

\* {k: v for k, v in params.items() if v is not None}
DropNone(params) ==
    [k \in {n \in DOMAIN params : params[n] # None} |-> params[k]]

\* f"{v}" of an optional string
Fmt(v) == IF v = None THEN "None" ELSE v[1]

\* how a call ends
Return(v) == [raised |-> FALSE, exc |-> "", msg |-> "", value |-> v]
Raise(exc, msg) == [raised |-> TRUE, exc |-> exc, msg |-> msg, value |-> None]

\* gdacs.schemas.GeoJSON(features=...)
GeoJSON(features) == [features |-> features]

\* one requests.get and the response it got
Request(url, params, res) ==
    [url |-> url, params |-> params, status_code |-> res.status_code,
     features |-> res.features]

\* what running a method body gives: its outcome, the requests it sent, the
\* single-event handler it called
Ran(out, net, handler) == [out |-> out, net |-> net, handler |-> handler]

----------------------------------------------------------------------------
\* The method bodies.  res is the response requests.get gives this call:
\* [status_code, features], features being res.json()['features'].

\* faulty variant of latest_events_4app_body: an invalid event type raises ValueError
latest_events_4app_body_ValueError(event_type, limit, res) ==
    IF event_type \notin EVENT_TYPES
    THEN Ran(Raise("ValueError",
                   "API Error: Used an invalid event_type parameter in request."),
             <<>>, "")
    ELSE LET net == <<Request(LATEST_EVENTS_URL_4APP, <<>>, res)>> IN
         IF res.status_code # 200
         THEN Ran(Raise("GDACSAPIError",
                        "API Error: GDACS RSS feed can not be reached."), net, "")
         ELSE LET keep(event) == event_type \in {None, Some(event.properties.eventtype)}
                  events == SelectSeq(res.features, keep)
                  features == json_loads(json_dumps(Slice(events, limit)))
              IN  Ran(Return(GeoJSON(features)), net, "")

\* faulty variant of latest_events_4app_body: the limit is applied before the filter
latest_events_4app_body_LimitFirst(event_type, limit, res) ==
    IF event_type \notin EVENT_TYPES
    THEN Ran(Raise("GDACSAPIError",
                   "API Error: Used an invalid event_type parameter in request."),
             <<>>, "")
    ELSE LET net == <<Request(LATEST_EVENTS_URL_4APP, <<>>, res)>> IN
         IF res.status_code # 200
         THEN Ran(Raise("GDACSAPIError",
                        "API Error: GDACS RSS feed can not be reached."), net, "")
         ELSE LET keep(event) == event_type \in {None, Some(event.properties.eventtype)}
                  events == SelectSeq(Slice(res.features, limit), keep)
                  features == json_loads(json_dumps(events))
              IN  Ran(Return(GeoJSON(features)), net, "")

\* api.py:34-46 (the back quotes of the message texts are left out)
latest_events_4app_body(event_type, limit, res) ==
    IF event_type \notin EVENT_TYPES
    THEN Ran(Raise("GDACSAPIError",
                   "API Error: Used an invalid event_type parameter in request."),
             <<>>, "")
    ELSE LET net == <<Request(LATEST_EVENTS_URL_4APP, <<>>, res)>> IN
         IF res.status_code # 200
         THEN Ran(Raise("GDACSAPIError",
                        "API Error: GDACS RSS feed can not be reached."), net, "")
         ELSE LET keep(event) == event_type \in {None, Some(event.properties.eventtype)}
                  events == SelectSeq(res.features, keep)
                  features == json_loads(json_dumps(Slice(events, limit)))
              IN  Ran(Return(GeoJSON(features)), net, "")

\* faulty variant of BadEventTypes: only the first element of event_list is checked
BadEventTypesFirstOnly(event_list) ==
    IF TruthyText(event_list)
    THEN LET first == Strip(Head(Split(event_list[1])))
         IN  IF Some(Text(first)) \notin EVENT_TYPES THEN <<first>> ELSE <<>>
    ELSE <<>>

\* api.py:81-85: the elements of event_list that are no event type, in order
BadEventTypes(event_list) ==
    IF TruthyText(event_list)
    THEN LET event_types == [i \in DOMAIN Split(event_list[1]) |->
                                Strip(Split(event_list[1])[i])]
         IN  SelectSeq(event_types, LAMBDA et : Some(Text(et)) \notin EVENT_TYPES)
    ELSE <<>>

\* api.py:87
BadAlertLevel(alert_level) == Truthy(alert_level) /\ alert_level \notin ALERT_LEVELS

\* faulty variant of latest_events_body: the features are cut to page_size
latest_events_body_Truncated(event_list, alert_level, date_modified, country, severity, page_size, page_number, res) ==
    IF BadEventTypes(event_list) # <<>> \/ BadAlertLevel(alert_level)
    THEN Ran(Raise("ValueError", "API Error: Invalid argument"), <<>>, "")
    ELSE LET params == DropNone(
                 [eventlist |-> IF event_list = None THEN None
                                ELSE Some(Text(event_list[1])),
                  alertlevel |-> alert_level,
                  datemodified |-> date_modified,
                  country |-> country,
                  severity |-> severity,
                  pagesize |-> page_size,
                  pagenumber |-> page_number])
             net == <<Request(LATEST_EVENTS_URL, params, res)>>
         IN  IF res.status_code = 204
             THEN Ran(Return(GeoJSON(<<>>)), net, "")
             ELSE IF res.status_code # 200
             THEN Ran(Raise("GDACSAPIError",
                            "API Error: GDACS API can not be reached."), net, "")
             ELSE Ran(Return(GeoJSON(Slice(res.features, page_size))), net, "")

\* api.py:81-111
latest_events_body(event_list, alert_level, date_modified, country, severity, page_size, page_number, res) ==
    IF BadEventTypes(event_list) # <<>>
    THEN Ran(Raise("ValueError",
                   "API Error: Invalid event type '"
                       \o Text(Head(BadEventTypes(event_list)))
                       \o "' in event_list"), <<>>, "")
    ELSE IF BadAlertLevel(alert_level)
    THEN Ran(Raise("ValueError",
                   "API Error: Invalid alert level '" \o alert_level[1]
                       \o "' in alert_level"), <<>>, "")
    ELSE LET params == DropNone(
                 [eventlist |-> IF event_list = None THEN None
                                ELSE Some(Text(event_list[1])),
                  alertlevel |-> alert_level,
                  datemodified |-> date_modified,
                  country |-> country,
                  severity |-> severity,
                  pagesize |-> page_size,
                  pagenumber |-> page_number])
             net == <<Request(LATEST_EVENTS_URL, params, res)>>
         IN  IF res.status_code = 204
             THEN Ran(Return(GeoJSON(<<>>)), net, "")
             ELSE IF res.status_code # 200
             THEN Ran(Raise("GDACSAPIError",
                            "API Error: GDACS API can not be reached."), net, "")
             ELSE Ran(Return(GeoJSON(res.features)), net, "")

\* faulty variant of get_events_by_area_body: TypeError is not caught as invalid input
get_events_by_area_body_NoTypeError(geometry_area, days, wkt, res) ==
    IF wkt = "AttributeError"
    THEN Ran(Raise("ValueError",
                   "API Error: Invalid geometry_area '" \o Fmt(geometry_area) \o "'"),
             <<>>, "")
    ELSE IF wkt # "ok"
    THEN Ran(Raise("GDACSAPIError", "API Error: " \o wkt), <<>>, "")
    ELSE LET net == <<Request(EVENTS_BY_AREA_URL,
                              [geometryArea |-> geometry_area, days |-> days], res)>>
         IN  IF res.status_code = 204
             THEN Ran(Return(GeoJSON(<<>>)), net, "")
             ELSE IF res.status_code # 200
             THEN Ran(Raise("GDACSAPIError",
                            "API Error: GDACS API can not be reached."), net, "")
             ELSE Ran(Return(GeoJSON(res.features)), net, "")

\* api.py:140-157.  wkt is how pygeoif's from_wkt(geometry_area) ends:
\* "ok", or the class of the exception it raises ("Exception": any class
\* that is neither AttributeError nor TypeError)
get_events_by_area_body(geometry_area, days, wkt, res) ==
    IF wkt \in {"AttributeError", "TypeError"}
    THEN Ran(Raise("ValueError",
                   "API Error: Invalid geometry_area '" \o Fmt(geometry_area) \o "'"),
             <<>>, "")
    ELSE IF wkt # "ok"
    THEN Ran(Raise("GDACSAPIError", "API Error: " \o wkt), <<>>, "")
    ELSE LET params == [geometryArea |-> geometry_area, days |-> days]
             net == <<Request(EVENTS_BY_AREA_URL, params, res)>>
         IN  IF res.status_code = 204
             THEN Ran(Return(GeoJSON(<<>>)), net, "")
             ELSE IF res.status_code # 200
             THEN Ran(Raise("GDACSAPIError",
                            "API Error: GDACS API can not be reached."), net, "")
             ELSE Ran(Return(GeoJSON(res.features)), net, "")

\* faulty variant of get_events_data_body: 404 is not told apart from other failures
get_events_data_body_No404(event_id, event_type, source, res) ==
    IF event_type \notin EVENT_TYPES
    THEN Ran(Raise("GDACSAPIError",
                   "API Error: Used an invalid event_type parameter in request."),
             <<>>, "")
    ELSE LET params == DropNone([eventid |-> event_id,
                                 eventtype |-> event_type,
                                 source |-> source])
             net == <<Request(EVENTS_DATA_URL, params, res)>>
         IN  IF res.status_code # 200
             THEN Ran(Raise("GDACSAPIError",
                            "API Error: GDACS API can not be reached."), net, "")
             ELSE Ran(Return(GeoJSON(res.features)), net, "")

\* api.py:167-183
get_events_data_body(event_id, event_type, source, res) ==
    IF event_type \notin EVENT_TYPES
    THEN Ran(Raise("GDACSAPIError",
                   "API Error: Used an invalid event_type parameter in request."),
             <<>>, "")
    ELSE LET params == DropNone([eventid |-> event_id,
                                 eventtype |-> event_type,
                                 source |-> source])
             net == <<Request(EVENTS_DATA_URL, params, res)>>
         IN  IF res.status_code = 404
             THEN Ran(Raise("GDACSAPIError", "API Error: Event ID not found."), net, "")
             ELSE IF res.status_code # 200
             THEN Ran(Raise("GDACSAPIError",
                            "API Error: GDACS API can not be reached."), net, "")
             ELSE Ran(Return(GeoJSON(res.features)), net, "")

\* The strings os.path.join takes apart are sequences of lexemes, a lexeme
\* being one separator ("/" or "\\") or a run of text without any.

\* f"{v}" of an optional text
FmtText(v) == IF v = None THEN <<"None">> ELSE v[1]

\* the separators of the platform whose os.sep is sep: posixpath knows "/",
\* ntpath both "\\" and "/"
Seps(sep) == IF sep = "/" THEN {"/"} ELSE {"\\", "/"}

\* os.path.join(path, *rest): a component that starts with a separator
\* replaces what was joined so far; any other is appended, after os.sep
\* unless the path is empty or ends with a separator
RECURSIVE Join(_, _, _)
Join(sep, path, rest) ==
    IF rest = <<>> THEN path
    ELSE LET b == Head(rest)
             joined == IF b # <<>> /\ b[1] \in Seps(sep) THEN b
                       ELSE IF path = <<>> \/ path[Len(path)] \in Seps(sep)
                            THEN path \o b
                            ELSE path \o <<sep>> \o b
         IN  Join(sep, joined, Tail(rest))

\* .replace("\\", "/")
Replace(path) == [i \in 1..Len(path) |-> IF path[i] = "\\" THEN "/" ELSE path[i]]

\* api.py:210, 215, 226: join(BASE_URL, event_type, event_id, file_name)
\* .replace("\\", "/") on the platform whose os.sep is sep
PathJoin(sep, base, event_type, event_id, file_name) ==
    Text(Replace(Join(sep, <<base>>, <<event_type, event_id, file_name>>)))

\* gdacs.utils.handle_geojson, download_shp, handle_xml: one fetch of the
\* resource at path; fetch is how it ends, "ok" or "missing"
FileHandler(handler, path, file_name, fetch) ==
    LET net == <<[url |-> path, params |-> <<>>,
                  status_code |-> IF fetch = "ok" THEN 200 ELSE 404,
                  features |-> <<>>]>>
    IN  IF fetch # "ok"
        THEN Ran(Raise("GDACSAPIError", "API Error: resource can not be reached."),
                 net, handler)
        ELSE Ran(Return([handler |-> handler, path |-> path,
                         text |-> IF handler = "shp"
                                  THEN "Downloaded " \o file_name \o " in directory."
                                  ELSE ""]),
                 net, handler)

\* api.py:209, 214, 219-224: the file name each private handler builds
FileName(handler, event_id, episode_id, cap_file) ==
    CASE handler = "geojson" ->
            <<"geojson_">> \o FmtText(event_id) \o <<"_", Fmt(episode_id), ".geojson">>
      [] handler = "shp" ->
            <<"Shape_">> \o FmtText(event_id) \o <<"_", Fmt(episode_id), ".zip">>
      [] OTHER ->
            IF cap_file THEN <<"cap_">> \o FmtText(event_id) \o <<".xml">>
            ELSE IF ~Truthy(episode_id) THEN <<"rss_">> \o FmtText(event_id) \o <<".xml">>
            ELSE <<"rss_">> \o FmtText(event_id) \o <<"_", Fmt(episode_id), ".xml">>

\* api.py:208-227: __get_geojson_event, __get_shp_event, __get_xml_event.
\* os.path.join raises TypeError on a component that is None; sep is the
\* os.sep of the platform the client runs on
GetEventHandler(handler, event_type, event_id, episode_id, cap_file, sep, fetch) ==
    LET file_name == FileName(handler, event_id, episode_id, cap_file) IN
    IF event_type = None \/ event_id = None
    THEN Ran(Raise("TypeError", "join() argument must be str, not 'NoneType'"),
             <<>>, handler)
    ELSE FileHandler(handler,
                     PathJoin(sep, BASE_URL, <<event_type[1]>>, event_id[1], file_name),
                     Text(file_name), fetch)

\* faulty variant of get_event_body: the 'shp' branch is missing
get_event_body_NoShpBranch(event_id, event_type, episode_id, source_format, cap_file, sep, fetch) ==
    IF event_type \notin EVENT_TYPES
    THEN Ran(Raise("GDACSAPIError",
                   "API Error: Used an invalid event_type parameter in request."),
             <<>>, "")
    ELSE IF source_format \notin DATA_FORMATS
    THEN Ran(Raise("GDACSAPIError",
                   "API Error: Used an invalid data_format parameter in request."),
             <<>>, "")
    ELSE IF source_format = Some("geojson")
    THEN GetEventHandler("geojson", event_type, event_id, episode_id, cap_file, sep, fetch)
    ELSE GetEventHandler("xml", event_type, event_id, episode_id, cap_file, sep, fetch)

\* api.py:195-206
get_event_body(event_id, event_type, episode_id, source_format, cap_file, sep, fetch) ==
    IF event_type \notin EVENT_TYPES
    THEN Ran(Raise("GDACSAPIError",
                   "API Error: Used an invalid event_type parameter in request."),
             <<>>, "")
    ELSE IF source_format \notin DATA_FORMATS
    THEN Ran(Raise("GDACSAPIError",
                   "API Error: Used an invalid data_format parameter in request."),
             <<>>, "")
    ELSE IF source_format = Some("geojson")
    THEN GetEventHandler("geojson", event_type, event_id, episode_id, cap_file, sep, fetch)
    ELSE IF source_format = Some("shp")
    THEN GetEventHandler("shp", event_type, event_id, episode_id, cap_file, sep, fetch)
    ELSE GetEventHandler("xml", event_type, event_id, episode_id, cap_file, sep, fetch)

----------------------------------------------------------------------------
\* @cached(cache=TTLCache(maxsize=500, ttl=CACHE_TTL)), api.py:28, 48, 114,
\* 160, 186.  A link is [key, value, expires].  The model never holds 500
\* live links in one cache, so the eviction on overflow is left out.

Ops == {"latest_events_4app", "latest_events", "get_events_by_area",
        "get_events_data", "get_event"}

\* the parameters of each method after self, in order (api.py:29-31, 49-56,
\* 115-117, 161-164, 187-192)
Params ==
    [latest_events_4app |-> <<"event_type", "limit">>,
     latest_events |-> <<"event_list", "alert_level", "date_modified", "country",
                         "severity", "page_size", "page_number">>,
     get_events_by_area |-> <<"geometry_area", "days">>,
     get_events_data |-> <<"event_id", "event_type", "source">>,
     get_event |-> <<"event_id", "event_type", "episode_id", "source_format",
                     "cap_file">>]

\* the parameters that have a default, with it
Defaults ==
    [latest_events_4app |-> [event_type |-> None, limit |-> None],
     latest_events |-> [event_list |-> None, alert_level |-> None,
                        date_modified |-> None, country |-> None,
                        severity |-> None, page_size |-> Some(DefaultPageSize),
                        page_number |-> Some(DefaultPageNumber)],
     get_events_by_area |-> [days |-> None],
     get_events_data |-> [source |-> None],
     get_event |-> [event_type |-> None, episode_id |-> None,
                    source_format |-> None, cap_file |-> FALSE]]

\* how a caller writes a call: every argument positionally, every argument
\* by keyword, or by keyword with the arguments left out whose value is the
\* default
Styles == {"positional", "keyword", "short"}

\* the call as written, binding vals to the parameters of op: its
\* positional arguments and its keyword arguments
Written(op, vals, style) ==
    LET names == Params[op]
        asKeyword == {i \in 1..Len(names) :
                        \/ style = "keyword"
                        \/ /\ style = "short"
                           /\ ~(/\ names[i] \in DOMAIN Defaults[op]
                                /\ Defaults[op][names[i]] = vals[i])}
    IN  [args |-> IF style = "positional" THEN vals ELSE <<>>,
         kwargs |-> {<<names[i], vals[i]>> : i \in asKeyword}]

\* faulty variant of HashKey: the keyword arguments are left out of the key
HashKeyPositionalOnly(args, kwargs) == <<args, {}>>

\* faulty variant of HashKey: only the first positional argument makes the key
HashKeyFirstOnly(args, kwargs) == <<IF args = <<>> THEN <<>> ELSE <<args[1]>>, {}>>

\* cachetools.keys.hashkey(*args, **kwargs): the positional arguments, then
\* the keyword arguments sorted by name; nothing is bound to the signature
HashKey(args, kwargs) == <<args, kwargs>>

\* faulty variant of Expired: a link is still alive at the second of its expiry
ExpiredLate(link, t) == t > link.expires

\* TTLCache.__getitem__: a link is dead once the timer has reached its expiry
Expired(link, t) == ~(t < link.expires)

\* cache[k]: the live links of the key (none is a KeyError)
CacheGet(links, k, t) == {l \in links : l.key = k /\ ~Expired(l, t)}

\* cache[k] = v: expired links are dropped, the key gets a new link
CacheSet(links, k, v, t) ==
    {l \in links : l.key # k /\ ~Expired(l, t)}
        \cup {[key |-> k, value |-> v, expires |-> t + CACHE_TTL]}

\* faulty variant of CacheAfter: what a failed call ends with is stored too
CacheAfterStoresErrors(links, k, hit, ran, t) ==
    IF hit THEN links ELSE CacheSet(links, k, ran.out.value, t)

\* the links after a call: only a miss that returns stores
CacheAfter(links, k, hit, ran, t) ==
    IF hit \/ ran.out.raised THEN links ELSE CacheSet(links, k, ran.out.value, t)

\* the record of the calls written as k after a call: vals the values they
\* bind, first the time of the first of them, nets the requests sent by them
\* within one TTL of it, stored the time their result was last stored (-1:
\* never)
HistAfter(uses, k, vals, hit, done, t) ==
    LET stores == ~hit /\ ~done.out.raised IN
    IF \E u \in uses : u.key = k
    THEN {IF u.key # k THEN u
          ELSE [u EXCEPT !.nets = IF t < u.first + CACHE_TTL
                                  THEN @ + Len(done.net) ELSE @,
                         !.stored = IF stores THEN t ELSE @] : u \in uses}
    ELSE uses \cup {[key |-> k, vals |-> vals, first |-> t,
                     firstok |-> ~done.out.raised,
                     nets |-> Len(done.net),
                     stored |-> IF stores THEN t ELSE -1]}

\* seconds since the result of the calls written as k was last stored (-1:
\* never)
Age(uses, k, t) ==
    IF \E u \in uses : u.key = k /\ u.stored >= 0
    THEN t - (CHOOSE u \in uses : u.key = k).stored
    ELSE -1

\* seconds since a result of a call binding vals, however written, was last
\* stored (-1: never)
BoundAge(uses, vals, t) ==
    LET stored == {u.stored : u \in {w \in uses : w.vals = vals /\ w.stored >= 0}}
    IN  IF stored = {} THEN -1
        ELSE t - (CHOOSE m \in stored : \A n \in stored : m >= n)

\* cachetools.cached's wrapper around one call of method op, written in the
\* given style and binding vals: ran is what the method body does with these
\* values, wkt how the WKT parser ended
Cached(op, vals, style, ran, wkt) ==
    LET call == Written(op, vals, style)
        k == HashKey(call.args, call.kwargs)
        found == CacheGet(cache[op], k, now)
        hit == found # {}
        done == IF hit
                THEN Ran(Return((CHOOSE l \in found : TRUE).value), <<>>, "")
                ELSE ran
    IN  /\ cache' = [cache EXCEPT ![op] = CacheAfter(@, k, hit, ran, now)]
        /\ last' = [op |-> op, args |-> vals, call |-> call, at |-> now,
                    hit |-> hit,
                    fresh |-> ~\E u \in hist[op] : u.key = call,
                    age |-> Age(hist[op], call, now),
                    bound_age |-> BoundAge(hist[op], vals, now),
                    out |-> done.out, net |-> done.net, handler |-> done.handler,
                    wkt |-> IF hit THEN "" ELSE wkt]
        /\ hist' = [hist EXCEPT ![op] = HistAfter(@, call, vals, hit, done, now)]
        /\ ncalls' = ncalls + 1
        /\ now' = now

----------------------------------------------------------------------------
\* The five public methods, each behind its cache

latest_events_4app(event_type, limit, style, res) ==
    Cached("latest_events_4app", <<event_type, limit>>, style,
           latest_events_4app_body(event_type, limit, res), "")

latest_events(event_list, alert_level, date_modified, country, severity, page_size, page_number, style, res) ==
    Cached("latest_events",
           <<event_list, alert_level, date_modified, country, severity,
             page_size, page_number>>, style,
           latest_events_body(event_list, alert_level, date_modified, country,
                              severity, page_size, page_number, res), "")

get_events_by_area(geometry_area, days, style, wkt, res) ==
    Cached("get_events_by_area", <<geometry_area, days>>, style,
           get_events_by_area_body(geometry_area, days, wkt, res), wkt)

get_events_data(event_id, event_type, source, style, res) ==
    Cached("get_events_data", <<event_id, event_type, source>>, style,
           get_events_data_body(event_id, event_type, source, res), "")

get_event(event_id, event_type, episode_id, source_format, cap_file, style, sep, fetch) ==
    Cached("get_event",
           <<event_id, event_type, episode_id, source_format, cap_file>>, style,
           get_event_body(event_id, event_type, episode_id, source_format,
                          cap_file, sep, fetch), "")

\* the timer moves on between calls
Tick ==
    /\ now < MaxTicks * TickLen
    /\ now' = now + TickLen
    /\ UNCHANGED <<cache, last, hist, ncalls>>

\* api.py:22-23 and the decorators' TTLCache(...): empty caches, no call yet
Init ==
    /\ now = 0
    /\ cache = [op \in Ops |-> {}]
    /\ hist = [op \in Ops |-> {}]
    /\ ncalls = 0
    /\ last = [op |-> "", args |-> <<>>, call |-> [args |-> <<>>, kwargs |-> {}],
               at |-> 0, hit |-> FALSE, fresh |-> FALSE,
               age |-> -1, bound_age |-> -1, out |-> Return(None), net |-> <<>>, handler |-> "",
               wkt |-> ""]

----------------------------------------------------------------------------
\* What the upstream may answer, and what a caller may pass

EventTypeNames == {"TC", "EQ"}

\* the feature lists of n features, numbered in upstream order
FeatureLists(n) ==
    {[i \in 1..n |-> [properties |-> [eventid |-> i, eventtype |-> t[i]]]] :
        t \in [1..n -> EventTypeNames]}

Bodies == UNION {FeatureLists(n) : n \in 0..MaxFeatures}

Responses ==
    {[status_code |-> 200, features |-> b] : b \in Bodies}
        \cup {[status_code |-> c, features |-> <<>>] : c \in {204, 404, 500}}

Lexemes == {"TC", "DH", ",", " "}

Texts == UNION {[1..n -> Lexemes] : n \in 0..MaxListLen}

EventTypeArgs == {None, Some("TC"), Some("EQ"), Some("DH"), Some("")}
LimitArgs == {None} \cup {Some(k) : k \in (-2)..(MaxFeatures + 1)}
EventListArgs == {None} \cup {Some(s) : s \in Texts}
AlertLevelArgs == {None, Some("red"), Some("INVALID"), Some("")}
PageSizeArgs == {Some(1), Some(DefaultPageSize)}
CountryArgs == {None, Some("USA")}
DaysArgs == {None, Some(7)}

\* a geometry_area and how pygeoif's from_wkt ends on it; "Exception" is
\* any exception class that is neither AttributeError nor TypeError
GeometryCases ==
    {<<Some("POINT(0 0)"), "ok">>,
     <<Some("LINESTRING(0 0, 1 1)"), "ok">>,
     <<Some("NOT A WKT STRING"), "AttributeError">>,
     <<Some(""), "AttributeError">>,
     <<None, "AttributeError">>,
     <<None, "TypeError">>,
     <<Some("POINT(a b)"), "Exception">>}
\* event ids as lexemes: a usual one, the empty string, one with a leading slash
EventIdArgs == {Some(<<"1000132">>), Some(<<>>), Some(<<"/", "1000132">>)}
\* os.sep: "/" on POSIX, "\\" on Windows
Platforms == {"/", "\\"}
EpisodeIdArgs == {None, Some("8"), Some("")}
SourceArgs == {None, Some("JRC")}
SourceFormatArgs == DATA_FORMATS \cup {Some(""), Some("pdf")}
FetchOutcomes == {"ok", "missing"}

----------------------------------------------------------------------------
\* SpecCall: any one call on a client whose caches are still empty

CallLatestEvents4app ==
    /\ ncalls = 0
    /\ \E event_type \in EventTypeArgs, limit \in LimitArgs, res \in Responses :
          latest_events_4app(event_type, limit, "keyword", res)

CallLatestEvents ==
    /\ ncalls = 0
    /\ \E event_list \in EventListArgs, alert_level \in AlertLevelArgs,
          country \in CountryArgs, page_size \in PageSizeArgs, res \in Responses :
          latest_events(event_list, alert_level, None, country, None,
                        page_size, Some(DefaultPageNumber), "keyword", res)

CallGetEventsByArea ==
    /\ ncalls = 0
    /\ \E g \in GeometryCases, days \in DaysArgs, res \in Responses :
          get_events_by_area(g[1], days, "keyword", g[2], res)

CallGetEventsData ==
    /\ ncalls = 0
    /\ \E event_type \in EventTypeArgs, source \in SourceArgs, res \in Responses :
          get_events_data(Some(1000132), event_type, source, "keyword", res)

CallGetEvent ==
    /\ ncalls = 0
    /\ \E event_id \in EventIdArgs, event_type \in EventTypeArgs,
          episode_id \in EpisodeIdArgs, source_format \in SourceFormatArgs,
          cap_file \in BOOLEAN, sep \in Platforms, fetch \in FetchOutcomes :
          get_event(event_id, event_type, episode_id, source_format, cap_file,
                    "keyword", sep, fetch)

NextCall ==
    \/ CallLatestEvents4app
    \/ CallLatestEvents
    \/ CallGetEventsByArea
    \/ CallGetEventsData
    \/ CallGetEvent

SpecCall == Init /\ [][NextCall]_vars

----------------------------------------------------------------------------
\* Spec: up to MaxCalls calls on one client, the timer advancing in between.
\* Each method is called with a few argument tuples, again and again;
\* latest_events and get_events_by_area are written in every style.

fewResponses ==
    {[status_code |-> 200, features |-> <<>>],
     [status_code |-> 200,
      features |-> <<[properties |-> [eventid |-> 1, eventtype |-> "TC"]]>>],
     [status_code |-> 500, features |-> <<>>]}

\* an empty body, or a failure
okOrFailed ==
    {[status_code |-> 200, features |-> <<>>],
     [status_code |-> 500, features |-> <<>>]}

LatestEvents4app ==
    /\ ncalls < MaxCalls
    /\ \E event_type \in {None, Some("DH")}, limit \in {None, Some(1)},
          res \in okOrFailed :
          latest_events_4app(event_type, limit, "keyword", res)

LatestEvents ==
    /\ ncalls < MaxCalls
    /\ \E event_list \in {None, Some(<<"DH">>)}, style \in Styles,
          res \in fewResponses :
          latest_events(event_list, None, None, None, None,
                        Some(DefaultPageSize), Some(DefaultPageNumber), style,
                        res)

GetEventsByArea ==
    /\ ncalls < MaxCalls
    /\ \E g \in {<<Some("POINT(0 0)"), "ok">>, <<Some(""), "AttributeError">>},
          days \in DaysArgs, style \in Styles, res \in okOrFailed :
          get_events_by_area(g[1], days, style, g[2], res)

GetEventsData ==
    /\ ncalls < MaxCalls
    /\ \E event_type \in {Some("TC"), Some("DH")}, source \in SourceArgs,
          res \in okOrFailed :
          get_events_data(Some(1000132), event_type, source, "keyword", res)

GetEvent ==
    /\ ncalls < MaxCalls
    /\ \E event_type \in {None, Some("TC")},
          episode_id \in {None, Some("8")}, fetch \in FetchOutcomes :
          get_event(Some(<<"1000132">>), event_type, episode_id, None, FALSE,
                    "keyword", "/", fetch)

Next ==
    \/ LatestEvents4app
    \/ LatestEvents
    \/ GetEventsByArea
    \/ GetEventsData
    \/ GetEvent
    \/ Tick

Spec == Init /\ [][Next]_vars

----------------------------------------------------------------------------
\* Vocabulary of the properties

Called(op) == last.op = op
Raised == last.out.raised
NoRequest == last.net = <<>>
\* the response to the one request of the last call
Status == IF last.net = <<>> THEN 0 ELSE last.net[1].status_code
Upstream == IF last.net = <<>> THEN <<>> ELSE last.net[1].features

\* the pieces of a comma-separated text: its maximal runs without a comma
Pieces(s) ==
    {SubSeq(s, i, j) : <<i, j>> \in
        {ij \in (1..(Len(s) + 1)) \X (0..Len(s)) :
            /\ ij[2] >= ij[1] - 1
            /\ ij[1] = 1 \/ s[ij[1] - 1] = ","
            /\ ij[2] = Len(s) \/ s[ij[2] + 1] = ","
            /\ \A k \in ij[1]..ij[2] : s[k] # ","}}

\* a piece without the blanks around it
Trimmed(p) ==
    LET inked == {k \in 1..Len(p) : p[k] # " "} IN
    IF inked = {} THEN <<>>
    ELSE SubSeq(p, CHOOSE a \in inked : \A k \in inked : a <= k,
                   CHOOSE b \in inked : \A k \in inked : b >= k)

\* the event types an event_list names; an empty or absent list names none
Named(event_list) ==
    IF event_list = None \/ event_list[1] = <<>> THEN {}
    ELSE {Some(Text(Trimmed(p))) : p \in Pieces(event_list[1])}

\* the last call was given an event type outside the allow-list
InvalidEventType ==
    \/ Called("latest_events_4app") /\ last.args[1] \notin EVENT_TYPES
    \/ Called("latest_events") /\ Named(last.args[1]) \ EVENT_TYPES # {}
    \/ Called("get_events_data") /\ last.args[2] \notin EVENT_TYPES
    \/ Called("get_event") /\ last.args[2] \notin EVENT_TYPES

failed == [status_code |-> 500, features |-> <<>>]

\* the kinds of error the five methods raise for an upstream failure
UpstreamKinds ==
    {latest_events_4app_body(None, None, failed).out.exc,
     latest_events_body(None, None, None, None, None, Some(DefaultPageSize),
                        Some(DefaultPageNumber), failed).out.exc,
     get_events_by_area_body(Some("POINT(0 0)"), None, "ok", failed).out.exc,
     get_events_data_body(Some(1000132), Some("TC"), None, failed).out.exc,
     get_event_body(Some(<<"1000132">>), Some("TC"), None, None, FALSE, "/",
                    "missing").out.exc}

\* the WKT parser rejected the geometry of the last call
WktRejected == Called("get_events_by_area") /\ last.wkt \notin {"", "ok"}

\* the last call was given malformed input
MalformedInput ==
    \/ InvalidEventType
    \/ Called("latest_events") /\ last.args[2] \notin ALERT_LEVELS
    \/ Called("get_event") /\ last.args[4] \notin DATA_FORMATS
    \/ WktRejected

\* the last call was refused for its input, before any request
InputError == MalformedInput /\ Raised /\ NoRequest

C4_NonMembersRejected ==
    /\ Called("latest_events") /\ last.args[2] \notin ALERT_LEVELS
          => Raised /\ NoRequest
    /\ Called("get_event") /\ last.args[4] \notin DATA_FORMATS
          => Raised /\ NoRequest /\ last.handler = ""

\* the features a feature collection was returned with
Returned == last.out.value.features

\* the features of the given type, in upstream order (all, for type None)
Matching(features, event_type) ==
    SelectSeq(features,
              LAMBDA f : event_type = None \/ event_type = Some(f.properties.eventtype))

Min(a, b) == IF a < b THEN a ELSE b
Max(a, b) == IF a > b THEN a ELSE b

\* C7 as claimed: on a 200 response latest_events_4app returns the first
\* min(k, n) of the n features of the requested type, in upstream order, and
\* so at most k features, for every integer limit k.
C7_Original ==
    Called("latest_events_4app") /\ Status = 200 =>
        LET m == Matching(Upstream, last.args[1])
            limit == last.args[2]
        IN  /\ ~Raised
            /\ limit = None => Returned = m
            /\ limit # None =>
                  /\ Returned = SubSeq(m, 1, Min(limit[1], Len(m)))
                  /\ Len(Returned) <= limit[1]

\* C7, amended: as claimed for every limit k >= 0 (and all n features when
\* no limit is given); for k < 0 the method returns the first
\* max(0, n + k) features of the requested type, which are more than k.
C7_FilterThenLimit ==
    Called("latest_events_4app") /\ Status = 200 =>
        LET m == Matching(Upstream, last.args[1])
            limit == last.args[2]
        IN  /\ ~Raised
            /\ limit = None => Returned = m
            /\ limit # None /\ limit[1] >= 0 =>
                  /\ Returned = SubSeq(m, 1, Min(limit[1], Len(m)))
                  /\ Len(Returned) <= limit[1]
            /\ limit # None /\ limit[1] < 0 =>
                  /\ Returned = SubSeq(m, 1, Max(0, Len(m) + limit[1]))
                  /\ Len(Returned) > limit[1]

\* C7 witness: upstream <<EQ, TC>>, event type TC, limit 1: the TC feature,
\* which the limit alone would have cut, is returned
C7_Witness ==
    /\ Called("latest_events_4app") /\ Status = 200
    /\ last.args = <<Some("TC"), Some(1)>>
    /\ Len(Upstream) = 2 /\ Upstream[1].properties.eventtype = "EQ"
    /\ Returned = <<Upstream[2]>>

C9_StatusPolicy ==
    (\E op \in {"latest_events", "get_events_by_area", "get_events_data"} : Called(op))
        /\ ~NoRequest =>
        /\ Status = 204 => ~Raised /\ Returned = <<>>
        /\ Status = 200 => ~Raised /\ Returned = Upstream
        /\ Status \notin {200, 204} => Raised /\ last.out.exc \in UpstreamKinds

\* what get_events_data raises for a failure other than 404
Generic == get_events_data_body(Some(1000132), Some("TC"), None, failed).out

\* C10 as claimed: on 404 get_events_data raises an error of another kind
\* than the generic upstream failure.
C10_Original ==
    Called("get_events_data") /\ Status = 404 =>
        Raised /\ last.out.exc # Generic.exc

\* C10, amended: on 404 get_events_data raises GDACSAPIError, the kind of the
\* generic upstream failure, with a message of its own ('Event ID not
\* found.'): the two differ by message, not by kind.
C10_NotFoundByMessage ==
    Called("get_events_data") /\ Status = 404 =>
        /\ Raised
        /\ last.out.exc = "GDACSAPIError" /\ last.out.exc = Generic.exc
        /\ last.out.msg = "API Error: Event ID not found."
        /\ last.out.msg # Generic.msg

\* C10 witness: get_events_data answered 404
C10_Witness ==
    Called("get_events_data") /\ Status = 404 /\ Raised /\ Len(last.net) = 1

----------------------------------------------------------------------------
\* Properties of the caches, under Spec

\* the uses recorded for the last call as it was written
LastUse == {u \in hist[last.op] : u.key = last.call}

\* C5 as claimed: the calls with the same arguments within one TTL of the
\* first of them send exactly one request in total, whatever the outcome of
\* the first; and a call with arguments never used before sends one request.
C5_Original ==
    /\ \A op \in Ops : \A u \in hist[op] : u.nets = 1
    /\ last.fresh => Len(last.net) = 1

\* C5, amended: when the first call written in some way returned, the calls
\* written that way within one TTL of it have sent exactly one request in
\* total (the result was stored and every later one was served from the
\* cache); a first call that raised stored nothing, so the total is not
\* bounded by one; and a call written as none before, whatever values it
\* binds, has sent exactly one request if it returned, and at most one if
\* it raised.
C5_OneRequestPerStoredResult ==
    /\ \A op \in Ops : \A u \in hist[op] : u.firstok => u.nets = 1
    /\ last.fresh /\ ~Raised => Len(last.net) = 1
    /\ last.fresh => Len(last.net) <= 1

\* C5 witness: a repeated call, later than the first but within its TTL,
\* that was served without a request
C5_Witness ==
    /\ last.op # "" /\ ~last.fresh /\ NoRequest /\ ~Raised
    /\ \E u \in LastUse : u.firstok /\ u.nets = 1 /\ u.first < last.at
                            /\ last.at < u.first + CACHE_TTL

\* C6: a call made CACHE_TTL seconds or more after the result of its
\* arguments was stored is not served from the cache: the method runs again
\* and sends a new request, and the result it returns is stored with an
\* expiry of CACHE_TTL seconds from then.
C6_ExpiredNotReturned ==
    last.age >= CACHE_TTL =>
        /\ ~last.hit
        /\ Len(last.net) = 1
        /\ ~Raised =>
              \E l \in cache[last.op] :
                  /\ l.key = HashKey(last.call.args, last.call.kwargs)
                  /\ l.value = last.out.value
                  /\ l.expires = last.at + CACHE_TTL

\* C6 witness: exactly CACHE_TTL seconds after the store the same call ran
\* again, got another body than the stored one and returned it
C6_Witness ==
    /\ Called("latest_events") /\ last.age = CACHE_TTL
    /\ ~Raised /\ Len(last.net) = 1 /\ Len(Returned) = 1
    /\ \E u \in LastUse : u.stored = last.at

----------------------------------------------------------------------------
\* Properties of get_event, under SpecCall

\* the handler the claimed dispatch gives a source format of the allow-list
HandlerOf(source_format) ==
    CASE source_format = Some("geojson") -> "geojson"
      [] source_format = Some("shp") -> "shp"
      [] source_format \in {None, Some("xml")} -> "xml"

\* C11: a get_event call whose event type and source format are both in
\* their allow-lists (None included) passes validation and calls one
\* handler: the GeoJSON handler for 'geojson', the shapefile handler for
\* 'shp', the XML/CAP handler for 'xml' and for no format; when the call
\* raises, it is the handler that raised, nothing before it.
C11_OneHandlerByFormat ==
    Called("get_event") /\ last.args[2] \in EVENT_TYPES
                        /\ last.args[4] \in DATA_FORMATS =>
        /\ last.handler = HandlerOf(last.args[4])
        /\ last.handler \in {"geojson", "shp", "xml"}
        /\ Raised => last.out.msg \notin
               {"API Error: Used an invalid event_type parameter in request.",
                "API Error: Used an invalid data_format parameter in request."}

\* C11 witness: event type left at its default None, format 'shp': the
\* shapefile handler was called
C11_Witness ==
    /\ Called("get_event") /\ last.args[2] = None /\ last.args[4] = Some("shp")
    /\ last.handler = "shp"

\* the file name the claimed patterns give; an episode id is given when it
\* is neither None nor empty
ClaimedName(handler, event_id, episode_id, cap_file) ==
    CASE handler = "geojson" ->
            "geojson_" \o Text(event_id[1]) \o "_" \o Fmt(episode_id) \o ".geojson"
      [] handler = "shp" ->
            "Shape_" \o Text(event_id[1]) \o "_" \o Fmt(episode_id) \o ".zip"
      [] handler = "xml" /\ cap_file ->
            "cap_" \o Text(event_id[1]) \o ".xml"
      [] handler = "xml" /\ ~cap_file /\ episode_id \in {None, Some("")} ->
            "rss_" \o Text(event_id[1]) \o ".xml"
      [] OTHER ->
            "rss_" \o Text(event_id[1]) \o "_" \o episode_id[1] \o ".xml"

\* base/event_type/event_id/filename
ClaimedPath(handler, event_type, event_id, episode_id, cap_file) ==
    BASE_URL \o "/" \o event_type[1] \o "/" \o Text(event_id[1]) \o "/"
        \o ClaimedName(handler, event_id, episode_id, cap_file)

\* the last call was a get_event whose handler handed a path to the file
\* collaborator
PathHanded == Called("get_event") /\ last.handler # "" /\ ~NoRequest

\* C12: the path a get_event handler hands to the file collaborator is
\* base/event_type/event_id/filename with forward slashes, the file name
\* being geojson_{event_id}_{episode_id}.geojson, Shape_{event_id}_
\* {episode_id}.zip, or for the XML/CAP handler cap_{event_id}.xml with the
\* cap flag, else rss_{event_id}.xml without an episode id and
\* rss_{event_id}_{episode_id}.xml with one.
C12_ResourcePath ==
    PathHanded =>
        last.net[1].url = ClaimedPath(last.handler, last.args[2], last.args[1],
                                      last.args[3], last.args[5])

----------------------------------------------------------------------------
\* Properties of the cache key and of failing calls, under Spec

\* C13 as claimed: the cache key is the tuple of the values bound to the
\* parameters, defaults filled in: a call made less than CACHE_TTL seconds
\* after the result of a call binding the same values was stored is a hit
\* and sends no request, also when the two calls are written differently
\* (positional or keyword, a default left out or passed).
C13_Original ==
    last.bound_age >= 0 /\ last.bound_age < CACHE_TTL => last.hit /\ NoRequest

\* C13, amended: the cache key is the call as written, its positional
\* arguments in order and its keyword arguments by name, no default filled
\* in: a call is a hit, sending no request, exactly when the result of a
\* call written the same way was stored less than CACHE_TTL seconds before;
\* a call binding the same values but written another way is a miss.
C13_KeyIsWrittenCall ==
    last.op # "" =>
        /\ last.hit <=> last.age >= 0 /\ last.age < CACHE_TTL
        /\ last.hit => NoRequest

\* C13 witness: get_events_by_area called positionally within the TTL of a
\* stored result for the same values passed another way: a miss that sent
\* its own request
C13_Witness ==
    /\ Called("get_events_by_area") /\ last.call.args # <<>>
    /\ last.bound_age >= 0 /\ last.bound_age < CACHE_TTL
    /\ last.age = -1 /\ ~last.hit /\ Len(last.net) = 1

\* a step that is a call of one of the methods
IsCall == ncalls' = ncalls + 1

\* C14: a call that ends in an error leaves every cache as it was, storing
\* nothing and removing or altering no entry; and the call after a failed
\* one, when written the same way, is not served from the cache but runs
\* the method again.
C14_ErrorLeavesCachesUnchanged ==
    [][/\ IsCall /\ last'.out.raised => cache' = cache
       /\ IsCall /\ Raised /\ last'.op = last.op /\ last'.call = last.call
             => ~last'.hit /\ last'.handler = last.handler
                /\ (last.net # <<>> => last'.net # <<>>)]_vars

\* C14 witness: an upstream failure on a client whose cache of that method
\* holds a live entry of an earlier call, and none for the failed call
C14_Witness ==
    /\ Raised /\ Len(last.net) = 1
    /\ \E l \in cache[last.op] : last.at < l.expires
    /\ \A l \in cache[last.op] : l.key # HashKey(last.call.args, last.call.kwargs)

====
